---------------------------- MODULE Spec2Model ----------------------------
(***************************************************************************)
(* Model of the vanity-address search of src-tauri/src/lib.rs:             *)
(* generate_fancy_wallet (the cancellable search loop, the pattern         *)
(* matching and the wallet it builds), to_checksum_address, and the two    *)
(* operations on the process-wide cancel flag.                             *)
(*                                                                         *)
(* Text is a sequence of one-character strings.  A secret key is a natural *)
(* number (the value of the 32 random bytes read big-endian).  The library *)
(* primitives (Keccak-256, secp256k1) are fixed total functions; they are  *)
(* modelled by fixed total functions of the same shape, and nothing below  *)
(* relies on the values they take.  The Instant clock (duration fields) is *)
(* not modelled: no control flow reads it.                                 *)
(***************************************************************************)
EXTENDS Integers, Sequences, FiniteSets, TLC

----------------------------------------------------------------------------
(* Bounds of the model                                                     *)

\* iterations one search may begin (general specification)
MaxAttempts == 3
\* matches one search may record
MaxMatches == 2
\* iterations one search may begin (long-run specification)
MaxAttemptsLong == 1001
\* length of the prefix of a long run in which the generator yields FillerKey
WarmUp == 998
\* number of valid secret keys of the model's curve: keys 1 .. CurveOrder-1
CurveOrder == 8

----------------------------------------------------------------------------
(* Program constants                                                       *)

\* attempt % 1000
ProgressInterval == 1000
\* a Keccak-256 digest has 32 bytes
DigestBytes == 32
\* an address is the last 20 bytes of a digest: hash[12..]
AddressOffset == 12
\* a secret key has 32 bytes
KeyBytes == 32

----------------------------------------------------------------------------
(* Characters                                                              *)

Digits == <<"0", "1", "2", "3", "4", "5", "6", "7", "8", "9">>
LowerLetters == <<"a", "b", "c", "d", "e", "f", "g", "x">>
UpperLetters == <<"A", "B", "C", "D", "E", "F", "G", "X">>
HexDigits == Digits \o SubSeq(LowerLetters, 1, 6)

Range(s) == {s[i] : i \in DOMAIN s}
IndexIn(c, s) == CHOOSE i \in DOMAIN s : s[i] = c

\* char::to_uppercase().next().unwrap()
ToUppercase(c) ==
    IF c \in Range(LowerLetters) THEN UpperLetters[IndexIn(c, LowerLetters)] ELSE c

\* one character of str::to_lowercase
ToLowercaseChar(c) ==
    IF c \in Range(UpperLetters) THEN LowerLetters[IndexIn(c, UpperLetters)] ELSE c

\* str::to_lowercase
ToLowercase(s) == [i \in DOMAIN s |-> ToLowercaseChar(s[i])]

\* the byte of a character (str::as_bytes on ASCII text)
ByteOf(c) ==
    IF c \in Range(Digits) THEN 47 + IndexIn(c, Digits)
    ELSE IF c \in Range(LowerLetters)
         THEN (IF c = "x" THEN 120 ELSE 96 + IndexIn(c, LowerLetters))
    ELSE IF c \in Range(UpperLetters)
         THEN (IF c = "X" THEN 88 ELSE 64 + IndexIn(c, UpperLetters))
    ELSE 42

AsBytes(s) == [i \in DOMAIN s |-> ByteOf(s[i])]

\* n copies of c
Repeat(c, n) == [i \in 1..n |-> c]

\* str::starts_with and str::ends_with
StartsWith(s, n) == Len(n) <= Len(s) /\ SubSeq(s, 1, Len(n)) = n
EndsWith(s, n) == Len(n) <= Len(s) /\ SubSeq(s, Len(s) - Len(n) + 1, Len(s)) = n

----------------------------------------------------------------------------
(* Library primitives                                                      *)

RECURSIVE SumBytes(_, _)
\* sum over k of bytes[k] * (k + w)
SumBytes(bytes, w) ==
    IF bytes = <<>> THEN 0
    ELSE bytes[Len(bytes)] * (Len(bytes) + w) + SumBytes(SubSeq(bytes, 1, Len(bytes) - 1), w)

\* Keccak256::new / update / finalize: a digest of 32 bytes, indexed from 0
Keccak256(bytes) ==
    LET a == SumBytes(bytes, 0)
        b == SumBytes(bytes, 3)
    IN  [j \in 0..(DigestBytes - 1) |->
            (a * (2 * j + 1) + b * (j + 5) + 37 * j * j + 11 * Len(bytes) + 89) % 256]

\* hex::encode of a byte string: two lowercase digits per byte
HexEncode(bytes) ==
    [i \in 1..(2 * Len(bytes)) |->
        LET byte == bytes[(i + 1) \div 2]
        IN  HexDigits[(IF i % 2 = 1 THEN byte \div 16 ELSE byte % 16) + 1]]

\* SecretKey::secret_bytes: the key as 32 big-endian bytes
SecretBytes(key) ==
    [i \in 1..KeyBytes |->
        IF i = KeyBytes THEN key % 256
        ELSE IF i = KeyBytes - 1 THEN (key \div 256) % 256
        ELSE 0]

\* SecretKey::from_slice accepts exactly the scalars 1 .. order-1
ValidScalar(x) == 1 <= x /\ x < CurveOrder

\* The last 20 bytes of Keccak-256 of the public key of the first keys: the
\* addresses a search can come across.  Keys 1 to 3 have corners of the three
\* shapes in digits, 4 and 5 start and end with "1a", 6 has corners of two
\* different shapes, 7 has corners of one letter each.
KnownAddresses == <<
    <<17, 17, 152, 140, 121, 252, 53, 82, 111, 126, 174, 212, 103, 37, 162, 167, 184, 96, 34, 34>>,
    <<17, 34, 220, 214, 200, 161, 248, 180, 98, 135, 204, 237, 144, 65, 223, 240, 44, 238, 51, 68>>,
    <<18, 18, 115, 116, 67, 226, 16, 71, 25, 72, 211, 50, 150, 200, 112, 9, 232, 167, 52, 52>>,
    <<26, 72, 180, 131, 183, 255, 192, 80, 254, 201, 77, 188, 163, 160, 170, 195, 96, 152, 178, 26>>,
    <<26, 204, 43, 216, 24, 49, 148, 120, 218, 107, 208, 198, 33, 222, 73, 241, 69, 253, 169, 26>>,
    <<17, 34, 247, 112, 217, 16, 111, 210, 135, 219, 127, 26, 219, 198, 9, 38, 246, 150, 52, 52>>,
    <<170, 170, 60, 194, 208, 182, 152, 213, 199, 228, 27, 164, 234, 94, 232, 116, 174, 118, 187, 187>> >>

\* PublicKey::from_secret_key, serialize_uncompressed, [1..], Keccak256:
\* the 32-byte digest of the public key of a valid secret key
PublicKeyHash(key) ==
    [j \in 0..(DigestBytes - 1) |->
        IF j < AddressOffset THEN (key * 31 + j * 7) % 256
        ELSE IF key <= Len(KnownAddresses) THEN KnownAddresses[key][j - AddressOffset + 1]
        ELSE (key * 37 + j * j * 11 + j * 5) % 256]

\* hex::encode(&hash[12..])
AddressLower(key) ==
    LET hash == PublicKeyHash(key)
    IN  HexEncode([i \in 1..(DigestBytes - AddressOffset) |-> hash[AddressOffset + i - 1]])

----------------------------------------------------------------------------
(* to_checksum_address                                                     *)

\* the outcome of a panic (index out of bounds); no text equals it
Panic == <<"panic">>

\* the nibbles of each byte taken in the other order
HashNibbleLowFirst(hash, i) ==
    IF i % 2 = 0 THEN hash[i \div 2] % 16 ELSE (hash[i \div 2] \div 16) % 16

\* hash[i / 2], then the high nibble for even i and the low nibble for odd i
HashNibble(hash, i) ==
    LET byte == hash[i \div 2]
    IN  IF i % 2 = 0 THEN (byte \div 16) % 16 ELSE byte % 16

\* to_checksum_address: the i-th character (from 0) is uppercased when the
\* i-th nibble of the digest of the text is >= 8; the digest has 32 bytes and
\* hash[i / 2] panics for i / 2 >= 32
ToChecksumAddress(address) ==
    LET hash == Keccak256(AsBytes(address))
    IN  IF \E i \in 0..(Len(address) - 1) : i \div 2 >= DigestBytes
        THEN Panic
        ELSE [n \in 1..Len(address) |->
                IF HashNibble(hash, n - 1) >= 8 THEN ToUppercase(address[n])
                ELSE address[n]]

----------------------------------------------------------------------------
(* Pattern compilation and matching (generate_fancy_wallet)                *)

Star == "*"
Aaaa == <<"a", "a", "a", "a">>
Aabb == <<"a", "a", "b", "b">>
Abab == <<"a", "b", "a", "b">>

\* the same test without the length requirement met by "**"
IsWildcardFromTwo(pattern) ==
    /\ Len(pattern) >= 2
    /\ pattern[1] = Star
    /\ pattern[Len(pattern)] = Star

\* pattern.starts_with('*') && pattern.ends_with('*') && pattern.len() > 2
IsWildcard(pattern) ==
    /\ Len(pattern) >= 1
    /\ pattern[1] = Star
    /\ pattern[Len(pattern)] = Star
    /\ Len(pattern) > 2

\* pattern[1..pattern.len()-1].to_lowercase(), or pattern.to_lowercase()
SearchPattern(pattern) ==
    IF IsWildcard(pattern) THEN ToLowercase(SubSeq(pattern, 2, Len(pattern) - 1))
    ELSE ToLowercase(pattern)

\* the same test with the last four characters compared with the first one
CornersSameOneChar(addr) ==
    IF Len(addr) >= 8
    THEN \A i \in 1..4 : addr[i] = addr[1] /\ addr[Len(addr) - i + 1] = addr[1]
    ELSE FALSE

\* "aaaa": chars().take(4) all equal to the first, chars().rev().take(4) all
\* equal to the last
CornersSame(addr) ==
    IF Len(addr) >= 8
    THEN LET prefix_chars == SubSeq(addr, 1, 4)
             suffix_chars == [i \in 1..4 |-> addr[Len(addr) - i + 1]]
         IN  /\ \A i \in 1..4 : prefix_chars[i] = prefix_chars[1]
             /\ \A i \in 1..4 : suffix_chars[i] = suffix_chars[1]
    ELSE FALSE

\* the shape tested on one corner by the "aabb" arm
ShapeAABB(w) == w[1] = w[2] /\ w[3] = w[4] /\ w[1] # w[3]

\* the same shape without the requirement that the two characters differ
ShapeABABAnyChars(w) == w[1] = w[3] /\ w[2] = w[4]

\* the shape tested on one corner by the "abab" arm
ShapeABAB(w) == w[1] = w[3] /\ w[2] = w[4] /\ w[1] # w[2]

\* the same test on the prefix alone
CornersAABBPrefixOnly(addr) ==
    IF Len(addr) >= 8 THEN ShapeAABB(SubSeq(addr, 1, 4)) ELSE FALSE

\* "aabb": prefix = addr[..4], suffix = addr[len-4..]
CornersAABB(addr) ==
    IF Len(addr) >= 8
    THEN ShapeAABB(SubSeq(addr, 1, 4)) /\ ShapeAABB(SubSeq(addr, Len(addr) - 3, Len(addr)))
    ELSE FALSE

\* "abab"
CornersABAB(addr) ==
    IF Len(addr) >= 8
    THEN ShapeABAB(SubSeq(addr, 1, 4)) /\ ShapeABAB(SubSeq(addr, Len(addr) - 3, Len(addr)))
    ELSE FALSE

\* the arms that call to_checksum_address(&search_pattern): the wildcard
\* fallback arm and the non-wildcard branch
UsesNeedle(is_wc, search) == ~is_wc \/ search \notin {Aaaa, Aabb, Abab}

\* the same test on the beginning alone
BothEndsPrefixOnly(addr, pattern_checksum) == StartsWith(addr, pattern_checksum)

\* address_checksum.starts_with(&pattern_checksum) &&
\* address_checksum.ends_with(&pattern_checksum)
BothEnds(addr, pattern_checksum) ==
    StartsWith(addr, pattern_checksum) /\ EndsWith(addr, pattern_checksum)

\* let matches = if is_wildcard { match search_pattern ... } else { ... },
\* where pattern_checksum is what to_checksum_address(&search_pattern) returned
Matches(is_wc, search, pattern_checksum, addr) ==
    IF is_wc
    THEN IF search = Aaaa THEN CornersSame(addr)
         ELSE IF search = Aabb THEN CornersAABB(addr)
         ELSE IF search = Abab THEN CornersABAB(addr)
         ELSE BothEnds(addr, pattern_checksum)
    ELSE BothEnds(addr, pattern_checksum)

\* the evaluation of `matches` panics inside to_checksum_address
MatchPanics(is_wc, search, pattern_checksum) ==
    UsesNeedle(is_wc, search) /\ pattern_checksum = Panic

----------------------------------------------------------------------------
(* Inputs                                                                  *)

\* the pattern strings a search is invoked with
Patterns ==
    { <<"*", "a", "a", "a", "a", "*">>,
      <<"*", "a", "a", "b", "b", "*">>,
      <<"*", "A", "b", "A", "b", "*">>,
      <<"*", "1", "a", "*">>,
      <<"1", "A">>,
      <<>>,
      <<"*">>,
      <<"*", "*">>,
      Repeat("a", 2 * (DigestBytes - AddressOffset) + 1),
      Repeat("a", 2 * DigestBytes + 1),
      <<"*">> \o Repeat("b", 2 * DigestBytes + 1) \o <<"*">> }

\* the values of the 32 random bytes: 0 and CurveOrder are no valid scalars
Draws == 0..CurveOrder

\* the patterns of the long runs
LongPatterns == { <<"*", "a", "a", "a", "a", "*">>, <<"1", "A">> }

\* a valid key whose address matches no pattern of LongPatterns
FillerKey == Len(KnownAddresses) - 1

\* the values the generator yields in iteration n of a long run
LongDraws(n) == IF n <= WarmUp THEN {FillerKey} ELSE Draws

\* the invocations of generate_fancy_wallet the model follows
SearchIds == {1, 2}

\* the iterations of each of two overlapping invocations
MaxAttemptsConc == 1

\* the patterns of overlapping invocations: one that matches every address
\* and one that matches one known address
ConcPatterns == { <<>>, <<"1", "A">> }

\* the values the generator yields to overlapping invocations: an invalid
\* scalar and two valid ones
ConcDraws == {0, Len(KnownAddresses) - 3, FillerKey}

\* the lengths up to which every run of "a" is tried as a pattern
ShortLen == 5

\* pattern lengths: the short ones, and those around the length of an address
\* (40) and of the hex form of a digest (64)
PatternLengths ==
    (0..ShortLen) \cup { 2 * (DigestBytes - AddressOffset), 2 * (DigestBytes - AddressOffset) + 1,
                         2 * DigestBytes, 2 * DigestBytes + 1 }

\* texts given as a pattern, and between two stars
Bodies ==
    { Repeat("a", n) : n \in PatternLengths } \cup
    { <<"1", "a">>, <<"1", "A">>, <<"1", "f">>, <<"A">>, <<"1">>,
      <<"d", "e", "a", "d">>, <<"D", "E", "A", "D">>,
      <<"a", "a", "b", "b">>, <<"a", "b", "a", "b">>,
      <<"A", "A", "A", "A">>, <<"A", "a", "B", "b">>, <<"A", "b", "A", "b">>,
      <<"*">>, <<"*", "*">>, <<"*", "a", "*">>, <<"*", "1", "a", "*">>,
      <<"*", "a">>, <<"a", "*">> }

\* a body between two stars
Wrap(body) == <<"*">> \o body \o <<"*">>

\* the patterns the matching functions are applied to on their own
PurePatterns == Patterns \cup Bodies \cup { Wrap(body) : body \in Bodies }

\* the wildcard patterns of the three corner arms, one in mixed case
CornerPatterns ==
    { Wrap(Aaaa), Wrap(Aabb), Wrap(Abab), Wrap(<<"A", "a", "B", "b">>) }

\* the characters of the corners of the address texts tried: a digit and a
\* letter in both cases
CornerChars == {"1", "a", "A"}

\* the four characters at one end of an address
Windows(chars) == [1..4 -> chars]

\* the 32 characters between the corners of an address
Middle(addr) == SubSeq(addr, 5, 2 * (DigestBytes - AddressOffset) - 4)

\* the characters between the corners of the address texts tried: those of
\* the checksummed address of a known key
MiddleText == Middle(ToChecksumAddress(AddressLower(Len(KnownAddresses) - 3)))

\* 40-character address texts with every pair of corners over CornerChars
CornerAddresses ==
    { p \o MiddleText \o q :
          p \in Windows(CornerChars), q \in Windows(CornerChars) }

\* corners that a checksummed needle of Bodies can begin or end
NeedleWindows ==
    { <<"1", "A", "4", "8">>, <<"B", "2", "1", "A">>, <<"1", "a", "1", "A">>,
      <<"1", "f", "1", "f">>, <<"a", "a", "a", "a">>, <<"A", "A", "a", "A">>,
      <<"d", "E", "A", "D">>, <<"1", "1", "1", "1">>, <<"*", "*", "*", "*">> }

\* Values computed once: the same text is checksummed in every iteration.
ValidKeys == {x \in Draws : ValidScalar(x)}
AddressChecksumOf == [k \in ValidKeys |-> ToChecksumAddress(AddressLower(k))]
PatternChecksumOf ==
    [sp \in {SearchPattern(p) : p \in Patterns \cup LongPatterns \cup PurePatterns}
        |-> ToChecksumAddress(sp)]

\* checksummed address texts the needle policies are applied to
NeedleAddresses ==
    { AddressChecksumOf[k] : k \in ValidKeys } \cup
    { p \o MiddleText \o q : p \in NeedleWindows, q \in NeedleWindows }

\* 40-character lowercase hex texts given to to_checksum_address
LowerAddresses ==
    { AddressLower(k) : k \in ValidKeys } \cup
    { p \o ToLowercase(MiddleText) \o q :
          p \in Windows({"1", "a"}), q \in Windows({"0", "f"}) }

\* the applications of a function on its own
PureCalls ==
    { [fn |-> "to_checksum_address", address |-> a] : a \in LowerAddresses } \cup
    { [fn |-> "pattern_checksum", pattern |-> raw] : raw \in PurePatterns } \cup
    { [fn |-> "matches", pattern |-> raw, address |-> a] :
          raw \in CornerPatterns, a \in CornerAddresses } \cup
    { [fn |-> "matches", pattern |-> raw, address |-> a] :
          raw \in PurePatterns, a \in NeedleAddresses }
PrivateKeyOf == [k \in ValidKeys |-> HexEncode(SecretBytes(k))]

----------------------------------------------------------------------------
(* State                                                                   *)

VARIABLES
    flagInit,        \* CANCEL_FLAG (OnceLock) has been initialised
    cancelFlag,      \* the AtomicBool inside CANCEL_FLAG
    pc,              \* where each invocation of generate_fancy_wallet stands
    pattern,         \* its argument `pattern`
    is_wildcard,     \* its locals, as named in the source
    search_pattern,
    attempt,
    matches_count,
    last_match,      \* Option<Wallet>: <<>> is None, <<w>> is Some(w)
    random_bytes,    \* the scalar drawn in the most recent iteration
    matches,         \* `matches` of the most recent iteration (FALSE if skipped)
    result,          \* what the invocation returned
    saveCalls,       \* the calls of save_wallet_to_file it made, in order
    emitCalls,       \* the calls of app.emit("generation-progress") it made
    save_result,     \* what save_wallet_to_file returned in the most recent
                     \* iteration: "Ok", "Err", or "none" if it was not called
    emit_result,     \* the same for app.emit
    call,            \* a function of the program applied on its own: its name
                     \* and arguments
    ret              \* <<>> before that call returns, <<value>> after

vars == <<flagInit, cancelFlag, pc, pattern, is_wildcard, search_pattern, attempt,
          matches_count, last_match, random_bytes, matches, result, saveCalls,
          emitCalls, save_result, emit_result, call, ret>>

flagVars == <<flagInit, cancelFlag>>
localVars == <<is_wildcard, search_pattern, attempt, matches_count, last_match,
               random_bytes, matches>>
sinkVars == <<saveCalls, emitCalls, save_result, emit_result>>
pureVars == <<call, ret>>
searchVars == <<flagVars, pc, pattern, localVars, result, sinkVars>>

\* no function is applied on its own
NoCall == [fn |-> "none"]

\* Err("生成已取消，未找到匹配的钱包")
ErrCancelled == "cancelled, no match found"

Pending == [kind |-> "pending", wallet |-> <<>>, error |-> ""]
Ok(wallet) == [kind |-> "Ok", wallet |-> <<wallet>>, error |-> ""]
Err(msg) == [kind |-> "Err", wallet |-> <<>>, error |-> msg]

\* NewWallet with the slip format!("0x{}", address_lower)
NewWalletLowercase(address_checksum, secret_key, n) ==
    [address |-> <<"0", "x">> \o ToLowercase(address_checksum),
     private_key |-> PrivateKeyOf[secret_key],
     attempts |-> n]

\* Wallet { address: format!("0x{}", address_checksum),
\*          private_key: hex::encode(secret_key.secret_bytes()), attempts: attempt }
NewWallet(address_checksum, secret_key, n) ==
    [address |-> <<"0", "x">> \o address_checksum,
     private_key |-> PrivateKeyOf[secret_key],
     attempts |-> n]

\* SaveWalletToFile with the slip of passing &search_pattern for &pattern
SaveWithSearchPattern(wallet, raw_pattern) ==
    [wallet |-> wallet, pattern |-> SearchPattern(raw_pattern)]

\* the arguments of one call save_wallet_to_file(&wallet, &pattern, ..)
SaveWalletToFile(wallet, raw_pattern) == [wallet |-> wallet, pattern |-> raw_pattern]

\* ProgressStats { attempts: attempt, matches: matches_count, .. }
ProgressStats(n, m) == [attempts |-> n, matches |-> m]

\* Result<(), _> of a call to a sink: the environment decides which
SinkResult(ok) == IF ok THEN "Ok" ELSE "Err"

\* a snapshot in every iteration
EmitsEveryAttempt(n, matched) == n >= 0 /\ matched \in BOOLEAN

\* attempt % 1000 == 0 || matches
EmitsProgress(n, matched) == n % ProgressInterval = 0 \/ matched

\* the process after start-up: CANCEL_FLAG unset, no invocation
InitSearch ==
    /\ flagInit = FALSE
    /\ cancelFlag = FALSE
    /\ pc = [s \in SearchIds |-> "idle"]
    /\ pattern = [s \in SearchIds |-> <<>>]
    /\ is_wildcard = [s \in SearchIds |-> FALSE]
    /\ search_pattern = [s \in SearchIds |-> <<>>]
    /\ attempt = [s \in SearchIds |-> 0]
    /\ matches_count = [s \in SearchIds |-> 0]
    /\ last_match = [s \in SearchIds |-> <<>>]
    /\ random_bytes = [s \in SearchIds |-> 0]
    /\ matches = [s \in SearchIds |-> FALSE]
    /\ result = [s \in SearchIds |-> Pending]
    /\ saveCalls = [s \in SearchIds |-> <<>>]
    /\ emitCalls = [s \in SearchIds |-> <<>>]
    /\ save_result = [s \in SearchIds |-> "none"]
    /\ emit_result = [s \in SearchIds |-> "none"]

Init == InitSearch /\ call = NoCall /\ ret = <<>>

----------------------------------------------------------------------------
(* Operations                                                              *)

\* cancel_generation: store(true) if CANCEL_FLAG is initialised, else nothing
CancelGeneration ==
    /\ cancelFlag' = (IF flagInit THEN TRUE ELSE cancelFlag)
    /\ UNCHANGED <<flagInit, pc, pattern, localVars, result, sinkVars, pureVars>>

\* the frontend invokes generate_fancy_wallet(pattern): a new call frame
Invoke(s, p) ==
    /\ pc[s] \in {"idle", "returned", "panicked"}
    /\ pc' = [pc EXCEPT ![s] = "reset"]
    /\ pattern' = [pattern EXCEPT ![s] = p]
    /\ is_wildcard' = [is_wildcard EXCEPT ![s] = FALSE]
    /\ search_pattern' = [search_pattern EXCEPT ![s] = <<>>]
    /\ attempt' = [attempt EXCEPT ![s] = 0]
    /\ matches_count' = [matches_count EXCEPT ![s] = 0]
    /\ last_match' = [last_match EXCEPT ![s] = <<>>]
    /\ random_bytes' = [random_bytes EXCEPT ![s] = 0]
    /\ matches' = [matches EXCEPT ![s] = FALSE]
    /\ result' = [result EXCEPT ![s] = Pending]
    /\ saveCalls' = [saveCalls EXCEPT ![s] = <<>>]
    /\ emitCalls' = [emitCalls EXCEPT ![s] = <<>>]
    /\ save_result' = [save_result EXCEPT ![s] = "none"]
    /\ emit_result' = [emit_result EXCEPT ![s] = "none"]
    /\ UNCHANGED <<flagVars, pureVars>>

\* reset_cancel_flag: store(false) if CANCEL_FLAG is initialised, else nothing
ResetCancelFlag(s) ==
    /\ pc[s] = "reset"
    /\ cancelFlag' = (IF flagInit THEN FALSE ELSE cancelFlag)
    /\ pc' = [pc EXCEPT ![s] = "getflag"]
    /\ UNCHANGED <<flagInit, pattern, localVars, result, sinkVars, pureVars>>

\* get_cancel_flag (get_or_init with false), then the set-up before the loop:
\* (is_wildcard, search_pattern), matches_count = 0, last_match = None,
\* attempt = 0
Setup(s) ==
    /\ pc[s] = "getflag"
    /\ flagInit' = TRUE
    /\ cancelFlag' = (IF flagInit THEN cancelFlag ELSE FALSE)
    /\ is_wildcard' = [is_wildcard EXCEPT ![s] = IsWildcard(pattern[s])]
    /\ search_pattern' = [search_pattern EXCEPT ![s] = SearchPattern(pattern[s])]
    /\ matches_count' = [matches_count EXCEPT ![s] = 0]
    /\ last_match' = [last_match EXCEPT ![s] = <<>>]
    /\ attempt' = [attempt EXCEPT ![s] = 0]
    /\ pc' = [pc EXCEPT ![s] = "check"]
    /\ UNCHANGED <<pattern, random_bytes, matches, result, sinkVars, pureVars>>

\* the value returned when the loop reads the flag as set
CancelledResult(last) == IF last # <<>> THEN Ok(last[1]) ELSE Err(ErrCancelled)

\* CheckCancel with the slip of a loop that tests the flag at its bottom: the
\* first pass does not read it
CheckCancelSkipsFirst(s, bound) ==
    /\ pc[s] = "check"
    /\ IF cancelFlag /\ attempt[s] > 0
       THEN /\ result' = [result EXCEPT ![s] = CancelledResult(last_match[s])]
            /\ pc' = [pc EXCEPT ![s] = "returned"]
       ELSE /\ attempt[s] < bound
            /\ pc' = [pc EXCEPT ![s] = "body"]
            /\ UNCHANGED result
    /\ UNCHANGED <<flagVars, pattern, localVars, sinkVars, pureVars>>

\* the top of the loop: cancel_flag.load(); if set, return; else go on into
\* the body of the iteration (the model follows at most `bound` iterations)
CheckCancel(s, bound) ==
    /\ pc[s] = "check"
    /\ IF cancelFlag
       THEN /\ result' = [result EXCEPT ![s] = CancelledResult(last_match[s])]
            /\ pc' = [pc EXCEPT ![s] = "returned"]
       ELSE /\ attempt[s] < bound
            /\ pc' = [pc EXCEPT ![s] = "body"]
            /\ UNCHANGED result
    /\ UNCHANGED <<flagVars, pattern, localVars, sinkVars, pureVars>>

\* SkipInvalid with the slip SecretKey::from_slice(..).unwrap()
SkipInvalidPanics(s, bytes) ==
    /\ matches' = [matches EXCEPT ![s] = FALSE]
    /\ pc' = [pc EXCEPT ![s] = "panicked"]
    /\ save_result' = [save_result EXCEPT ![s] = "none"]
    /\ emit_result' = [emit_result EXCEPT ![s] = "none"]
    /\ UNCHANGED <<matches_count, last_match, saveCalls, emitCalls>>

\* Err(_) => continue: only attempt and random_bytes have changed
SkipInvalid(s, bytes) ==
    /\ matches' = [matches EXCEPT ![s] = FALSE]
    /\ pc' = [pc EXCEPT ![s] = "check"]
    /\ save_result' = [save_result EXCEPT ![s] = "none"]
    /\ emit_result' = [emit_result EXCEPT ![s] = "none"]
    /\ UNCHANGED <<matches_count, last_match, saveCalls, emitCalls>>

\* to_checksum_address(&search_pattern) panics: the task ends there
PanicInBody(s) ==
    /\ pc' = [pc EXCEPT ![s] = "panicked"]
    /\ save_result' = [save_result EXCEPT ![s] = "none"]
    /\ emit_result' = [emit_result EXCEPT ![s] = "none"]
    /\ UNCHANGED <<matches_count, last_match, matches, saveCalls, emitCalls>>

\* OnMatch with the slip last_match.get_or_insert(wallet.clone())
OnMatchKeepsFirst(s, wallet, saveOk) ==
    /\ matches_count[s] < MaxMatches
    /\ matches_count' = [matches_count EXCEPT ![s] = @ + 1]
    /\ last_match' = [last_match EXCEPT ![s] = IF @ = <<>> THEN <<wallet>> ELSE @]
    /\ saveCalls' = [saveCalls EXCEPT ![s] = Append(@, SaveWalletToFile(wallet, pattern[s]))]
    /\ save_result' = [save_result EXCEPT ![s] = SinkResult(saveOk)]

\* OnMatch with the slip of a missing matches_count += 1
OnMatchUncounted(s, wallet, saveOk) ==
    /\ matches_count[s] < MaxMatches
    /\ matches_count' = matches_count
    /\ last_match' = [last_match EXCEPT ![s] = <<wallet>>]
    /\ saveCalls' = [saveCalls EXCEPT ![s] = Append(@, SaveWalletToFile(wallet, pattern[s]))]
    /\ save_result' = [save_result EXCEPT ![s] = SinkResult(saveOk)]

\* OnMatch with the slip of counting and retaining a match only if
\* save_wallet_to_file(..).is_ok()
OnMatchCountsSavedOnly(s, wallet, saveOk) ==
    /\ matches_count[s] < MaxMatches
    /\ matches_count' = [matches_count EXCEPT ![s] = IF saveOk THEN @ + 1 ELSE @]
    /\ last_match' = [last_match EXCEPT ![s] = IF saveOk THEN <<wallet>> ELSE @]
    /\ saveCalls' = [saveCalls EXCEPT ![s] = Append(@, SaveWalletToFile(wallet, pattern[s]))]
    /\ save_result' = [save_result EXCEPT ![s] = SinkResult(saveOk)]

\* if matches { matches_count += 1; last_match = Some(wallet.clone());
\*              let _ = save_wallet_to_file(..) }
OnMatch(s, wallet, saveOk) ==
    /\ matches_count[s] < MaxMatches
    /\ matches_count' = [matches_count EXCEPT ![s] = @ + 1]
    /\ last_match' = [last_match EXCEPT ![s] = <<wallet>>]
    /\ saveCalls' = [saveCalls EXCEPT ![s] = Append(@, SaveWalletToFile(wallet, pattern[s]))]
    /\ save_result' = [save_result EXCEPT ![s] = SinkResult(saveOk)]

\* if attempt % 1000 == 0 || matches { let _ = app.emit(..) }
Progress(s, n, matched, emitOk) ==
    IF EmitsProgress(n, matched)
    THEN /\ emitCalls' = [emitCalls EXCEPT ![s] = Append(@, ProgressStats(n, matches_count'[s]))]
         /\ emit_result' = [emit_result EXCEPT ![s] = SinkResult(emitOk)]
    ELSE /\ emit_result' = [emit_result EXCEPT ![s] = "none"]
         /\ UNCHANGED emitCalls

\* one pass of the loop body, from `attempt += 1` to the end of the block
Iterate(s, bytes, saveOk, emitOk) ==
    /\ pc[s] = "body"
    /\ attempt' = [attempt EXCEPT ![s] = @ + 1]
    /\ random_bytes' = [random_bytes EXCEPT ![s] = bytes]
    /\ IF ~ValidScalar(bytes)
       THEN SkipInvalid(s, bytes)
       ELSE IF MatchPanics(is_wildcard[s], search_pattern[s],
                           PatternChecksumOf[search_pattern[s]])
       THEN PanicInBody(s)
       ELSE LET address_checksum == AddressChecksumOf[bytes]
                m == Matches(is_wildcard[s], search_pattern[s],
                             PatternChecksumOf[search_pattern[s]], address_checksum)
            IN  /\ matches' = [matches EXCEPT ![s] = m]
                /\ IF m
                   THEN OnMatch(s, NewWallet(address_checksum, bytes, attempt'[s]), saveOk)
                   ELSE /\ save_result' = [save_result EXCEPT ![s] = "none"]
                        /\ UNCHANGED <<matches_count, last_match, saveCalls>>
                /\ Progress(s, attempt'[s], m, emitOk)
                /\ pc' = [pc EXCEPT ![s] = "check"]
    /\ UNCHANGED <<flagVars, pattern, is_wildcard, search_pattern, result, pureVars>>

----------------------------------------------------------------------------
(* The functions applied on their own                                      *)

\* is_wildcard, search_pattern and, in the arms that compute it,
\* to_checksum_address(&search_pattern)
PatternChecksum(raw) ==
    LET is_wc == IsWildcard(raw)
        search == SearchPattern(raw)
    IN  [is_wildcard |-> is_wc,
         search_pattern |-> search,
         uses_needle |-> UsesNeedle(is_wc, search),
         pattern_checksum |-> IF UsesNeedle(is_wc, search) THEN PatternChecksumOf[search]
                              ELSE <<>>]

\* the evaluation of `matches` for a raw pattern and a checksummed address
MatchOutcome(raw, addr) ==
    LET c == PatternChecksum(raw)
        panics == MatchPanics(c.is_wildcard, c.search_pattern, c.pattern_checksum)
    IN  [panicked |-> panics,
         matches |-> /\ ~panics
                     /\ Matches(c.is_wildcard, c.search_pattern, c.pattern_checksum, addr)]

\* to_checksum_address(&address) returns (or panics)
CallToChecksumAddress ==
    /\ call.fn = "to_checksum_address"
    /\ ret = <<>>
    /\ ret' = <<ToChecksumAddress(call.address)>>
    /\ UNCHANGED <<call, searchVars>>

\* the pattern's mode, search text and needle are computed
CallPatternChecksum ==
    /\ call.fn = "pattern_checksum"
    /\ ret = <<>>
    /\ ret' = <<PatternChecksum(call.pattern)>>
    /\ UNCHANGED <<call, searchVars>>

\* `matches` is evaluated for one pattern and one address
CallMatches ==
    /\ call.fn = "matches"
    /\ ret = <<>>
    /\ ret' = <<MatchOutcome(call.pattern, call.address)>>
    /\ UNCHANGED <<call, searchVars>>

----------------------------------------------------------------------------
(* Specifications                                                          *)

\* one invocation at a time, any pattern, any draw
Next ==
    \/ CancelGeneration
    \/ \E p \in Patterns : Invoke(1, p)
    \/ ResetCancelFlag(1)
    \/ Setup(1)
    \/ CheckCancel(1, MaxAttempts)
    \/ \E bytes \in Draws, saveOk, emitOk \in BOOLEAN : Iterate(1, bytes, saveOk, emitOk)

Spec == Init /\ [][Next]_vars

\* one invocation at a time, past the thousandth iteration
NextLong ==
    \/ CancelGeneration
    \/ \E p \in LongPatterns : Invoke(1, p)
    \/ ResetCancelFlag(1)
    \/ Setup(1)
    \/ CheckCancel(1, MaxAttemptsLong)
    \/ \E bytes \in LongDraws(attempt[1] + 1), saveOk, emitOk \in BOOLEAN :
           Iterate(1, bytes, saveOk, emitOk)

SpecLong == Init /\ [][NextLong]_vars

\* the steps of the task that runs invocation s
SearchStep(s, bound) ==
    \/ ResetCancelFlag(s)
    \/ Setup(s)
    \/ CheckCancel(s, bound)
    \/ \E bytes \in Draws, saveOk, emitOk \in BOOLEAN : Iterate(s, bytes, saveOk, emitOk)

\* the runtime keeps running a task that can take a step
FairSpec == Spec /\ WF_vars(SearchStep(1, MaxAttempts))

\* two invocations whose tasks overlap (the runtime runs each command
\* invocation as a task of its own), and cancel requests at any time
NextConc ==
    \/ CancelGeneration
    \/ \E s \in SearchIds, p \in ConcPatterns : Invoke(s, p)
    \/ \E s \in SearchIds : ResetCancelFlag(s)
    \/ \E s \in SearchIds : Setup(s)
    \/ \E s \in SearchIds : CheckCancel(s, MaxAttemptsConc)
    \/ \E s \in SearchIds, bytes \in ConcDraws, saveOk, emitOk \in BOOLEAN :
           Iterate(s, bytes, saveOk, emitOk)

SpecConc == Init /\ [][NextConc]_vars

\* one function applied to one input
InitPure == InitSearch /\ call \in PureCalls /\ ret = <<>>

NextPure ==
    \/ CallToChecksumAddress
    \/ CallPatternChecksum
    \/ CallMatches

SpecPure == InitPure /\ [][NextPure]_vars

----------------------------------------------------------------------------
(* Properties                                                              *)

\* invocation 1 is inside the loop (the Running state)
Running == pc[1] \in {"check", "body"}

\* a step that runs the body of one iteration of invocation 1
IterationStep == pc[1] = "body" /\ pc'[1] # "body"

\* the policy of a raw pattern accepts a checksummed address (no 0x prefix)
Accepts(raw, addr) ==
    LET search == SearchPattern(raw)
    IN  /\ ~MatchPanics(IsWildcard(raw), search, PatternChecksumOf[search])
        /\ Matches(IsWildcard(raw), search, PatternChecksumOf[search], addr)

\* the scalar drawn is valid and its address is accepted by the policy
MatchingDraw(raw, bytes) == ValidScalar(bytes) /\ Accepts(raw, AddressChecksumOf[bytes])

\* C1: when the loop reads the cancel flag as set, the invocation returns
\* Ok(w) if a match occurred in this search, w being the wallet built in the
\* most recent matching iteration (its attempts field exceeds that of every
\* earlier match), and returns the 'cancelled, no match found' error if and
\* only if no match occurred.
C1_CancelReturnsLatestMatch ==
    pc[1] = "returned" =>
        /\ (matches_count[1] = 0) <=> (result[1] = Err(ErrCancelled))
        /\ matches_count[1] > 0 =>
            /\ result[1].kind = "Ok"
            /\ saveCalls[1] # <<>>
            /\ result[1].wallet = <<saveCalls[1][Len(saveCalls[1])].wallet>>
            /\ \A i \in 1..(Len(saveCalls[1]) - 1) :
                 /\ saveCalls[1][i].wallet.attempts < result[1].wallet[1].attempts
                 /\ saveCalls[1][i].wallet # result[1].wallet[1]

\* C1 witness: a search cancelled after two matches and a later non-matching
\* iteration has returned
C1_Witness ==
    /\ pc[1] = "returned"
    /\ matches_count[1] = 2
    /\ result[1].kind = "Ok"
    /\ attempt[1] > result[1].wallet[1].attempts
    /\ saveCalls[1][1].wallet.private_key # saveCalls[1][2].wallet.private_key

\* C2: the search leaves the Running state only by reading the cancel flag as
\* set: in an iteration begun with the flag read as false it never returns,
\* fails or aborts, whatever the pattern.
C2_LeavesRunningOnlyByCancel ==
    [][(Running /\ ~Running') =>
          (pc[1] = "check" /\ cancelFlag /\ pc'[1] = "returned")]_vars

\* C3: once a cancel request has set the flag while the search is in its loop,
\* the flag stays set until the search returns, the search's next cancellation
\* check returns (so no further iteration begins and the attempt counter grows
\* by at most the one iteration in flight), and the search does return.
C3_CancelHonouredWithinOneIteration ==
    /\ [][(Running /\ cancelFlag) =>
            /\ (Running' => cancelFlag')
            /\ (pc[1] = "check" => attempt'[1] = attempt[1] /\ pc'[1] \in {"check", "returned"})
            /\ (pc[1] = "body" => attempt'[1] <= attempt[1] + 1 /\ pc'[1] \in {"body", "check"})]_vars
    /\ ((Running /\ cancelFlag) ~> (pc[1] = "returned"))

\* C3 witness: the flag is set while an iteration after the first is in flight
C3_Witness == pc[1] = "body" /\ cancelFlag /\ attempt[1] >= 1

\* C4: a search that finds the flag set at its first cancellation check returns
\* the 'cancelled, no match' error, with zero attempts, zero calls of the
\* persistence hook and zero progress emissions.
C4_CancelledBeforeFirstIteration ==
    [][(pc[1] = "check" /\ attempt[1] = 0 /\ cancelFlag /\ pc'[1] # "check") =>
          /\ pc'[1] = "returned"
          /\ result'[1] = Err(ErrCancelled)
          /\ attempt'[1] = 0
          /\ matches_count'[1] = 0
          /\ saveCalls'[1] = <<>>
          /\ emitCalls'[1] = <<>>]_vars

\* C4 witness: a search has returned without having begun an iteration
C4_Witness == pc[1] = "returned" /\ attempt[1] = 0 /\ result[1].kind = "Err"

\* a wallet is sound for a raw pattern: its address is "0x" followed by the
\* checksummed address of the key its private_key encodes, and the policy of
\* the pattern accepts that checksummed address
SoundWallet(w, raw) ==
    \E k \in ValidKeys :
        /\ w.private_key = HexEncode(SecretBytes(k))
        /\ w.address = <<"0", "x">> \o ToChecksumAddress(AddressLower(k))
        /\ Accepts(raw, SubSeq(w.address, 3, Len(w.address)))

\* the wallets the search has persisted, retained or returned
WalletsOut ==
    {saveCalls[1][i].wallet : i \in DOMAIN saveCalls[1]}
        \cup Range(last_match[1]) \cup Range(result[1].wallet)

\* C5: every wallet the search persists or returns is sound, its attempts
\* field is between 1 and the attempt counter, and a wallet built in the
\* iteration just completed carries that iteration's attempt counter.
C5_WalletsAreSound ==
    /\ \A w \in WalletsOut :
          /\ SoundWallet(w, pattern[1])
          /\ 1 <= w.attempts /\ w.attempts <= attempt[1]
    /\ (pc[1] = "check" /\ matches[1]) =>
          /\ last_match[1] # <<>>
          /\ last_match[1][1].attempts = attempt[1]
          /\ last_match[1][1].private_key = HexEncode(SecretBytes(random_bytes[1]))

\* C5 witness: a wallet with an address in mixed case, built in the second
\* iteration or later, has been returned
C5_Witness ==
    /\ pc[1] = "returned"
    /\ result[1].kind = "Ok"
    /\ result[1].wallet[1].attempts >= 2
    /\ result[1].wallet[1].address # ToLowercase(result[1].wallet[1].address)

\* C6: every iteration raises attempts by exactly 1, invalid scalars
\* included; matches rises by exactly 1 in a matching iteration and is
\* unchanged in every other; outside the iterations of a search neither counter
\* changes; so matches <= attempts always, and attempts = N with matches = 0
\* after N iterations without a match.
C6_Counting ==
    /\ [](matches_count[1] <= attempt[1])
    /\ [][/\ IterationStep =>
              /\ attempt'[1] = attempt[1] + 1
              /\ matches_count'[1] =
                    matches_count[1] + (IF MatchingDraw(pattern[1], random_bytes'[1]) THEN 1 ELSE 0)
              /\ matches'[1] = MatchingDraw(pattern[1], random_bytes'[1])
          /\ (~IterationStep /\ Running') =>
              /\ attempt'[1] = (IF Running THEN attempt[1] ELSE 0)
              /\ matches_count'[1] = (IF Running THEN matches_count[1] ELSE 0)]_vars

\* C6 witness: three iterations, of which one drew an invalid scalar last and
\* one matched
C6_Witness ==
    /\ pc[1] = "check"
    /\ attempt[1] = 3
    /\ matches_count[1] = 1
    /\ ~ValidScalar(random_bytes[1])

\* C7: in every iteration in which attempts % 1000 = 0 after the increment, or
\* in which a match occurred, a progress snapshot with the current attempts
\* and matches is emitted before the next iteration begins.
C7_ProgressCadence ==
    [][(IterationStep /\ pc'[1] = "check"
          /\ (attempt'[1] % ProgressInterval = 0 \/ MatchingDraw(pattern[1], random_bytes'[1]))) =>
          emitCalls'[1] =
              Append(emitCalls[1], ProgressStats(attempt'[1], matches_count'[1]))]_vars

\* C8: the persistence hook is called exactly once in each matching iteration,
\* with that iteration's wallet and the raw pattern, and in no other
\* iteration; so the number of calls made equals matches.
C8_OneSavePerMatch ==
    /\ [](Len(saveCalls[1]) = matches_count[1])
    /\ [][IterationStep =>
            IF MatchingDraw(pattern[1], random_bytes'[1])
            THEN /\ last_match'[1] # <<>>
                 /\ last_match'[1][1].attempts = attempt'[1]
                 /\ saveCalls'[1] =
                       Append(saveCalls[1], [wallet |-> last_match'[1][1], pattern |-> pattern[1]])
            ELSE saveCalls'[1] = saveCalls[1]]_vars

\* C8 witness: two calls made with a raw pattern that differs from the
\* lowercased, unwrapped search pattern
C8_Witness ==
    /\ Len(saveCalls[1]) = 2
    /\ saveCalls[1][2].pattern # search_pattern[1]
    /\ saveCalls[1][2].pattern # ToLowercase(saveCalls[1][2].pattern)
    /\ IsWildcard(saveCalls[1][2].pattern)

\* C9: an iteration in which the persistence hook or the progress emit was
\* called has the same effect whether the call returned Ok or Err: attempts
\* rises by 1, matches by 1 exactly if the iteration matched, last_match is the
\* wallet handed to the hook, the snapshot carries the new counters, and the
\* loop goes on to its next cancellation check; the only error a search
\* returns is 'cancelled, no match found'.
C9_SinkFailuresSwallowed ==
    /\ [](result[1].kind = "Err" => result[1] = Err(ErrCancelled))
    /\ [][(IterationStep /\ (save_result'[1] # "none" \/ emit_result'[1] # "none")) =>
            /\ pc'[1] = "check"
            /\ result'[1] = Pending
            /\ attempt'[1] = attempt[1] + 1
            /\ matches_count'[1] =
                  matches_count[1] + (IF MatchingDraw(pattern[1], random_bytes'[1]) THEN 1 ELSE 0)
            /\ (save_result'[1] # "none") = MatchingDraw(pattern[1], random_bytes'[1])
            /\ save_result'[1] # "none" =>
                  /\ Len(saveCalls'[1]) = Len(saveCalls[1]) + 1
                  /\ last_match'[1] = <<saveCalls'[1][Len(saveCalls'[1])].wallet>>
            /\ save_result'[1] = "none" => last_match'[1] = last_match[1]
            /\ emit_result'[1] # "none" =>
                  emitCalls'[1] =
                      Append(emitCalls[1], ProgressStats(attempt'[1], matches_count'[1]))]_vars

\* C9 witness: an iteration in which both calls failed is over and the loop is
\* at its next cancellation check, a second match recorded
C9_Witness ==
    /\ pc[1] = "check"
    /\ save_result[1] = "Err"
    /\ emit_result[1] = "Err"
    /\ matches_count[1] = 2
    /\ result[1] = Pending

\* C10: an iteration that draws an invalid scalar produces no match, calls no
\* sink, leaves matches and last_match as they were, does not end the search,
\* and leads to the next cancellation check.
C10_InvalidScalarSkipped ==
    [][(IterationStep /\ ~ValidScalar(random_bytes'[1])) =>
          /\ pc'[1] = "check"
          /\ ~matches'[1]
          /\ matches_count'[1] = matches_count[1]
          /\ last_match'[1] = last_match[1]
          /\ saveCalls'[1] = saveCalls[1]
          /\ result'[1] = Pending
          /\ attempt'[1] = attempt[1] + 1]_vars

\* C10 witness: an invalid scalar at or above the curve order was drawn after
\* a match, whose wallet is still retained
C10_Witness ==
    /\ pc[1] = "check"
    /\ random_bytes[1] >= CurveOrder
    /\ matches_count[1] = 1
    /\ last_match[1] # <<>>
    /\ last_match[1][1].attempts < attempt[1]


\* the policy the specification assigns to a raw pattern: its kind and the
\* text whose checksummed form is the needle
PolicyOf(raw) ==
    IF Len(raw) > 2 /\ raw[1] = "*" /\ raw[Len(raw)] = "*"
    THEN LET body == ToLowercase(SubSeq(raw, 2, Len(raw) - 1))
         IN  IF body = <<"a", "a", "a", "a">>
             THEN [kind |-> "WildcardCorners4Same", text |-> <<>>]
             ELSE IF body = <<"a", "a", "b", "b">>
             THEN [kind |-> "WildcardAABB", text |-> <<>>]
             ELSE IF body = <<"a", "b", "a", "b">>
             THEN [kind |-> "WildcardABAB", text |-> <<>>]
             ELSE [kind |-> "WildcardContainsBoth", text |-> body]
    ELSE [kind |-> "ExactBoth", text |-> ToLowercase(raw)]

\* the kinds of policy that carry a needle
NeedleKinds == {"WildcardContainsBoth", "ExactBoth"}

\* a policy accepts a checksummed address (no 0x prefix)
PolicyAccepts(policy, addr) ==
    IF policy.kind = "WildcardCorners4Same" THEN CornersSame(addr)
    ELSE IF policy.kind = "WildcardAABB" THEN CornersAABB(addr)
    ELSE IF policy.kind = "WildcardABAB" THEN CornersABAB(addr)
    ELSE BothEnds(addr, PatternChecksumOf[policy.text])

\* invocation 1 has computed is_wildcard and search_pattern
Compiled == pc[1] \in {"check", "body", "returned", "panicked"}

\* C11: the raw pattern selects exactly one policy, fixed for the whole
\* search: wildcard mode if and only if the pattern starts with '*', ends with
\* '*' and is longer than 2, the body being lowercased and "aaaa", "aabb",
\* "abab" selecting the three corner policies, any other body the policy
\* WildcardContainsBoth of the body; every other pattern ("*" and "**"
\* included) selects ExactBoth of the lowercased pattern.
C11_OnePolicyPerPattern ==
    /\ [](Compiled =>
            LET policy == PolicyOf(pattern[1])
            IN  /\ is_wildcard[1] = (policy.kind # "ExactBoth")
                /\ UsesNeedle(is_wildcard[1], search_pattern[1]) =
                       (policy.kind \in NeedleKinds)
                /\ policy.kind \in NeedleKinds => search_pattern[1] = policy.text
                /\ policy.kind \notin NeedleKinds =>
                       PolicyOf(<<"*">> \o search_pattern[1] \o <<"*">>) = policy
                /\ ~MatchPanics(is_wildcard[1], search_pattern[1],
                                PatternChecksumOf[search_pattern[1]]) =>
                       \A k \in ValidKeys :
                           Matches(is_wildcard[1], search_pattern[1],
                                   PatternChecksumOf[search_pattern[1]],
                                   AddressChecksumOf[k])
                               = PolicyAccepts(policy, AddressChecksumOf[k]))
    /\ [][(Compiled /\ pc[1] # "returned" /\ pc[1] # "panicked") =>
             /\ pattern'[1] = pattern[1]
             /\ is_wildcard'[1] = is_wildcard[1]
             /\ search_pattern'[1] = search_pattern[1]]_vars

\* C11 witness: a search for "*AbAb*" runs in wildcard mode on the lowercased
\* body and has accepted an address of the ABAB shape
C11_Witness ==
    /\ pc[1] = "check"
    /\ pattern[1] = <<"*", "A", "b", "A", "b", "*">>
    /\ is_wildcard[1]
    /\ search_pattern[1] = Abab
    /\ matches_count[1] >= 1

\* a function applied on its own has returned
Returned(fn) == call.fn = fn /\ ret # <<>>

\* C12: pattern compilation has no error path: for every pattern, of any
\* length and content (longer than 64 characters included), computing the
\* policy's checksummed needle completes and yields a policy.
C12_CompilationNeverFails ==
    Returned("pattern_checksum") => ret[1].pattern_checksum # Panic

\* all the characters of a text are one character
OneChar(w) == \A i, j \in 1..Len(w) : w[i] = w[j]

\* the first and the last four characters of an address text
First4(addr) == SubSeq(addr, 1, 4)
Last4(addr) == SubSeq(addr, Len(addr) - 3, Len(addr))

\* C13: the policy WildcardCorners4Same matches an address if and only if its
\* first 4 characters are all equal to each other and, independently, its
\* last 4 characters are all equal to each other, compared case-sensitively.
C13_Corners4Same ==
    (Returned("matches") /\ PolicyOf(call.pattern).kind = "WildcardCorners4Same") =>
        /\ ~ret[1].panicked
        /\ ret[1].matches = (OneChar(First4(call.address)) /\ OneChar(Last4(call.address)))

\* C13 witness: "*aaaa*" accepted an address whose first four characters are
\* one letter and whose last four are one digit
C13_Witness ==
    /\ Returned("matches")
    /\ call.pattern = Wrap(Aaaa)
    /\ First4(call.address) = <<"A", "A", "A", "A">>
    /\ Last4(call.address) = <<"1", "1", "1", "1">>
    /\ ret[1].matches

\* four characters p0 p1 p2 p3 with p0 = p1, p2 = p3 and p0 # p2
IsAABB(p0, p1, p2, p3) == p0 = p1 /\ p2 = p3 /\ p0 # p2

\* four characters p0 p1 p2 p3 with p0 = p2, p1 = p3 and p0 # p1
IsABAB(p0, p1, p2, p3) == p0 = p2 /\ p1 = p3 /\ p0 # p1

\* C14: WildcardAABB matches if and only if both the first four and the last
\* four characters satisfy p0 == p1, p2 == p3, p0 != p2; WildcardABAB if and
\* only if both satisfy p0 == p2, p1 == p3, p0 != p1; an address with one
\* shape at one end and the other shape at the other end matches neither.
C14_CornerShapes ==
    Returned("matches") =>
        LET kind == PolicyOf(call.pattern).kind
            f == First4(call.address)
            l == Last4(call.address)
        IN  /\ kind = "WildcardAABB" =>
                  /\ ~ret[1].panicked
                  /\ ret[1].matches = (/\ IsAABB(f[1], f[2], f[3], f[4])
                                       /\ IsAABB(l[1], l[2], l[3], l[4]))
            /\ kind = "WildcardABAB" =>
                  /\ ~ret[1].panicked
                  /\ ret[1].matches = (/\ IsABAB(f[1], f[2], f[3], f[4])
                                       /\ IsABAB(l[1], l[2], l[3], l[4]))
            /\ (/\ kind \in {"WildcardAABB", "WildcardABAB"}
                /\ \/ IsAABB(f[1], f[2], f[3], f[4]) /\ IsABAB(l[1], l[2], l[3], l[4])
                   \/ IsABAB(f[1], f[2], f[3], f[4]) /\ IsAABB(l[1], l[2], l[3], l[4]))
               => ~ret[1].matches

\* C14 witness: "*aabb*" accepted an address whose two ends have the AABB
\* shape in different characters
C14_Witness ==
    /\ Returned("matches")
    /\ call.pattern = Wrap(Aabb)
    /\ First4(call.address) = <<"1", "1", "A", "A">>
    /\ Last4(call.address) = <<"a", "a", "1", "1">>
    /\ ret[1].matches

\* a text begins and ends with n, character by character
BeginsAndEndsWith(text, n) ==
    /\ Len(n) <= Len(text)
    /\ \A i \in 1..Len(n) : text[i] = n[i] /\ text[Len(text) - Len(n) + i] = n[i]

\* the bodies for which "*body*" and "body" are claimed to be the same
\* policy: not empty, not themselves between two stars, and not one of the
\* three corner bodies in any case
PlainBody(body) ==
    /\ body # <<>>
    /\ ~(Len(body) > 2 /\ body[1] = "*" /\ body[Len(body)] = "*")
    /\ ToLowercase(body) \notin {Aaaa, Aabb, Abab}

\* C15 (as amended): ExactBoth(n) and WildcardContainsBoth(n) match an
\* address if and only if it both starts with n and ends with n, compared
\* case-sensitively with the 40-character checksummed address; consequently,
\* for every non-empty body that is not itself of the form "*...*" (longer
\* than 2) and is not "aaaa", "aabb" or "abab" in any case, "*body*" and
\* "body" have the same outcome on every address.
C15_NeedleBothEnds ==
    Returned("matches") =>
        LET policy == PolicyOf(call.pattern)
        IN  /\ (policy.kind \in NeedleKinds /\ ~ret[1].panicked) =>
                   ret[1].matches =
                       BeginsAndEndsWith(call.address, PatternChecksumOf[policy.text])
            /\ (call.pattern \in Bodies /\ PlainBody(call.pattern)) =>
                   ret[1] = MatchOutcome(Wrap(call.pattern), call.address)

\* C15 witness: the exact pattern "1a" accepted an address that begins and
\* ends with its checksummed form "1A" (and does not end with "1a")
C15_Witness ==
    /\ Returned("matches")
    /\ call.pattern = <<"1", "a">>
    /\ First4(call.address) = <<"1", "A", "4", "8">>
    /\ Last4(call.address) = <<"1", "a", "1", "A">>
    /\ ret[1].matches
    /\ MatchOutcome(Wrap(call.pattern), call.address).matches

\* C15 (as stated): for every body other than "aaaa", "aabb", "abab", the
\* wildcard pattern "*body*" and the exact pattern "body" accept exactly the
\* same set of addresses.
C15_WrappedSameAsBare ==
    (/\ Returned("matches")
     /\ call.pattern \in Bodies
     /\ call.pattern \notin {Aaaa, Aabb, Abab}) =>
        ret[1].matches = MatchOutcome(Wrap(call.pattern), call.address).matches

\* the digest of a text as 64 hex digits
DigestHex(text) ==
    LET digest == Keccak256(AsBytes(text))
    IN  HexEncode([k \in 1..DigestBytes |-> digest[k - 1]])

\* the hex digits whose value is 8 or more
HighDigits == {"8", "9", "a", "b", "c", "d", "e", "f"}

\* C16: for every 40-character lowercase hex input addr,
\* checksum(lower(checksum(addr))) = checksum(addr); the output has the length
\* of the input, each digit is unchanged and each letter is either unchanged
\* or uppercased, uppercased exactly when the hash nibble at its position is
\* 8 or more.
C16_ChecksumIdempotent ==
    Returned("to_checksum_address") =>
        LET addr == call.address
            out == ret[1]
            digest == DigestHex(addr)
        IN  /\ out # Panic
            /\ Len(out) = Len(addr)
            /\ \A i \in 1..Len(addr) :
                   out[i] = IF addr[i] \in Range(LowerLetters) /\ digest[i] \in HighDigits
                            THEN ToUppercase(addr[i])
                            ELSE addr[i]
            /\ ToLowercase(out) = addr
            /\ ToChecksumAddress(ToLowercase(out)) = out

\* C16 witness: the encoder returned an address with a letter it uppercased,
\* a letter it left in lower case, and a digit
C16_Witness ==
    /\ Returned("to_checksum_address")
    /\ Len(call.address) = 2 * (DigestBytes - AddressOffset)
    /\ \E i, j, k \in 1..Len(ret[1]) :
           /\ ret[1][i] \in Range(UpperLetters) /\ ret[1][i] # call.address[i]
           /\ ret[1][j] \in Range(LowerLetters)
           /\ ret[1][k] \in Range(Digits)

\* invocation s is inside its loop
InLoop(s) == pc[s] \in {"check", "body"}

\* C17: under every interleaving of cancel requests and search invocations,
\* the flag is written to true only by a cancel request, and once a cancel
\* request has set the flag while a search is running, the flag stays true
\* until that search has observed it and returned: no cancel request
\* addressed to a running search is lost.
C17_NoCancelLost ==
    /\ [][(~cancelFlag /\ cancelFlag') => CancelGeneration]_vars
    /\ [][\A s \in SearchIds :
             (InLoop(s) /\ cancelFlag /\ InLoop(s)') => cancelFlag']_vars

\* the three wildcard patterns of the corner shapes
ShapePatterns == {Wrap(Aaaa), Wrap(Aabb), Wrap(Abab)}

\* the number of corner shapes a 4-character window has
ShapesOf(w) ==
    Cardinality({ k \in {"same", "aabb", "abab"} :
                    \/ k = "same" /\ \A i \in 1..4 : w[i] = w[1]
                    \/ k = "aabb" /\ ShapeAABB(w)
                    \/ k = "abab" /\ ShapeABAB(w) })

\* C18: the three corner shapes are pairwise disjoint: no 4-character window
\* is all-same, aabb and abab in more than one way, so no address is accepted
\* by more than one of the patterns "*aaaa*", "*aabb*", "*abab*".
C18_ShapesDisjoint ==
    (Returned("matches") /\ call.pattern \in ShapePatterns) =>
        /\ ShapesOf(First4(call.address)) <= 1
        /\ ShapesOf(Last4(call.address)) <= 1
        /\ ret[1].matches =>
               \A other \in ShapePatterns \ {call.pattern} :
                   ~MatchOutcome(other, call.address).matches

\* C18 witness: "*abab*" accepted an address that "*aaaa*" and "*aabb*" reject
C18_Witness ==
    /\ Returned("matches")
    /\ call.pattern = Wrap(Abab)
    /\ ret[1].matches
    /\ First4(call.address) = <<"1", "a", "1", "a">>
    /\ ~MatchOutcome(Wrap(Aaaa), call.address).matches
    /\ ~MatchOutcome(Wrap(Aabb), call.address).matches

\* C19: the progress snapshots emitted by one search are monotone: each has
\* a strictly greater attempts value than the previous one and a matches
\* value greater than or equal to it, every snapshot has matches <= attempts,
\* and a snapshot is emitted only in an iteration where attempts % 1000 = 0
\* or a match occurred.
C19_SnapshotsMonotone ==
    /\ [](\A i \in 1..Len(emitCalls[1]) :
             /\ emitCalls[1][i].matches <= emitCalls[1][i].attempts
             /\ i > 1 => /\ emitCalls[1][i].attempts > emitCalls[1][i - 1].attempts
                         /\ emitCalls[1][i].matches >= emitCalls[1][i - 1].matches)
    /\ [][(Running /\ emitCalls'[1] # emitCalls[1]) =>
             /\ IterationStep
             /\ Len(emitCalls'[1]) = Len(emitCalls[1]) + 1
             /\ SubSeq(emitCalls'[1], 1, Len(emitCalls[1])) = emitCalls[1]
             /\ emitCalls'[1][Len(emitCalls'[1])].attempts = attempt'[1]
             /\ \/ attempt'[1] % 1000 = 0
                \/ matches_count'[1] = matches_count[1] + 1]_vars

\* C19 witness: three snapshots, one of them for a multiple of 1000 attempts
\* and one for a match at another attempt
C19_Witness ==
    /\ Len(emitCalls[1]) = 3
    /\ \E i, j \in 1..Len(emitCalls[1]) :
           /\ emitCalls[1][i].attempts % 1000 = 0
           /\ emitCalls[1][j].attempts % 1000 # 0
           /\ emitCalls[1][j].matches >= 1
    /\ emitCalls[1][3].matches = 2

\* the pattern's needle is longer than an address or holds a character no
\* checksummed address holds
ImpossibleNeedle(raw) ==
    LET policy == PolicyOf(raw)
    IN  /\ policy.kind \in NeedleKinds
        /\ \/ Len(policy.text) > 2 * (DigestBytes - AddressOffset)
           \/ "*" \in Range(policy.text)

\* C20: with the empty pattern "" every iteration with a valid scalar is a
\* match that increments matches, calls the persistence hook and emits a
\* snapshot; with a needle longer than the 40-character address or holding a
\* character that cannot occur in an address (patterns "*" and "**") nothing
\* ever matches and the search can only end with 'cancelled, no match'.
C20_EmptyAndImpossibleNeedles ==
    /\ [][(IterationStep /\ pattern[1] = <<>> /\ ValidScalar(random_bytes'[1])) =>
             /\ matches_count'[1] = matches_count[1] + 1
             /\ Len(saveCalls'[1]) = Len(saveCalls[1]) + 1
             /\ Len(emitCalls'[1]) = Len(emitCalls[1]) + 1]_vars
    /\ [](ImpossibleNeedle(pattern[1]) =>
             /\ matches_count[1] = 0
             /\ saveCalls[1] = <<>>
             /\ pc[1] # "panicked"
             /\ pc[1] = "returned" => result[1] = Err(ErrCancelled))

=============================================================================
